---- MODULE Spec2Model ----
(***************************************************************************)
(* Model of the Isolation game agent of src/game_agent.py: the evaluation  *)
(* function custom_score, the searches minimax/dls and alphabeta, and the  *)
(* entry point CustomPlayer.get_move with its iterative-deepening loop.    *)
(*                                                                         *)
(* Scores are floats in the code.  Every finite score is an integer minus  *)
(* (blank cells)/(width*height), so the model keeps a score multiplied by  *)
(* width*height as an integer; the boards of the model have a power-of-two *)
(* number of cells, for which the code's float arithmetic is exact.        *)
(* float("inf") is the integer Inf, larger than every finite scaled score. *)
(*                                                                         *)
(* Time: time_left() is a callable supplied by the match driver.  It is    *)
(* modelled as a countdown that starts at t0 and loses `rate` units each   *)
(* time a search node is entered.                                          *)
(***************************************************************************)
EXTENDS Integers, Sequences, FiniteSets, TLC

\* ------------------------------------------------------------------ bounds
MaxSide == 4
MaxCells == 8
MaxDepth == 3
MaxTime == 12

\* --------------------------------------------------------------- constants
TIMER_THRESHOLD == 10
Inf == 100000
NegInf == 0 - Inf
None == <<>>
NOT_MOVED == <<>>
no_move == <<-1, -1>>

\* --------------------------------------------------- Board (collaborator)
Abs(x) == IF x < 0 THEN 0 - x ELSE x

Max(a, b) == IF a >= b THEN a ELSE b

Min(a, b) == IF a <= b THEN a ELSE b

IsPow2(n) == n \in {1, 2, 4, 8, 16, 32, 64}

\* Board.__init__: an empty board, player 1 to move
NewBoard(w, h) ==
    [width |-> w, height |-> h, occ |-> {}, loc |-> <<NOT_MOVED, NOT_MOVED>>,
     active |-> 1]

get_opponent(p) == 3 - p

directions ==
    << <<-2, -1>>, <<-2, 1>>, <<-1, -2>>, <<-1, 2>>,
       <<1, -2>>, <<1, 2>>, <<2, -1>>, <<2, 1>> >>

move_is_legal(g, m) ==
    /\ 0 <= m[1] /\ m[1] < g.height
    /\ 0 <= m[2] /\ m[2] < g.width
    /\ m \notin g.occ

\* the moves of a sequence that are legal on g, in order
FilterLegal(g, s) == SelectSeq(s, LAMBDA m : move_is_legal(g, m))

\* all cells in column-major order: (i, j) for j in range(width) for i in range(height)
AllCells(g) ==
    [k \in 1..(g.width * g.height) |->
        << (k - 1) % g.height, (k - 1) \div g.height >>]

get_blank_spaces(g) == FilterLegal(g, AllCells(g))

get_moves(g, m) ==
    IF m = NOT_MOVED THEN get_blank_spaces(g)
    ELSE FilterLegal(g, [k \in 1..8 |-> <<m[1] + directions[k][1], m[2] + directions[k][2]>>])

get_legal_moves(g, p) == get_moves(g, g.loc[p])

get_player_location(g, p) == g.loc[p]

\* forecast_move: a copy of the board with the active player's move applied
forecast_move(g, m) ==
    [g EXCEPT !.occ = @ \cup {m},
              !.loc = [@ EXCEPT ![g.active] = m],
              !.active = get_opponent(g.active)]

is_loser(g, p) == p = g.active /\ get_legal_moves(g, g.active) = <<>>

is_winner(g, p) == p = get_opponent(g.active) /\ get_legal_moves(g, g.active) = <<>>

SeqToSet(s) == {s[k] : k \in DOMAIN s}

\* ------------------------------------------------------------- evaluation
Cells(g) == g.width * g.height

\* percent_occupation, times width*height: the number of BLANK cells
percent_occupation(g) == Len(get_blank_spaces(g))

distance_to_opponent(g, p) ==
    Abs(get_player_location(g, p)[1] - get_player_location(g, get_opponent(p))[1])
    + Abs(get_player_location(g, p)[2] - get_player_location(g, get_opponent(p))[2])

\* third_heuristic, times width*height
third_heuristic(g, p) ==
    (Len(get_legal_moves(g, p)) + distance_to_opponent(g, p)
        - Len(get_legal_moves(g, get_opponent(p)))) * Cells(g)
    - percent_occupation(g)

\* custom_score, times width*height
custom_score(g, p) ==
    IF is_loser(g, p) THEN NegInf
    ELSE IF is_winner(g, p) THEN Inf
    ELSE third_heuristic(g, p)

\* ------------------------------------------------------------------ clock
\* time_left(): the countdown after c search nodes have been entered
Reading(tl, c) == tl.t0 - tl.rate * c

\* the test of minimax and alphabeta that raises Timeout
TimedOut(t) == t < TIMER_THRESHOLD

\* counters threaded through a search: c = nodes entered, polls = calls of
\* time_left(), late = nodes that did work although the countdown was already
\* under the threshold, last = the latest value time_left() returned
NoCount == [c |-> 0, polls |-> 0, late |-> 0, last |-> None]

Poll(tl, k) == [k EXCEPT !.polls = @ + 1, !.last = Reading(tl, k.c)]

Enter(tl, k) ==
    [k EXCEPT !.c = @ + 1,
              !.late = @ + (IF TimedOut(Reading(tl, k.c)) THEN 1 ELSE 0)]

Raise(k) == [to |-> TRUE, v |-> None, move |-> None, k |-> [k EXCEPT !.c = @ + 1]]

\* ---------------------------------------------------------------- minimax
RECURSIVE dls(_, _, _, _, _, _)
RECURSIVE dlsLoop(_, _, _, _, _, _, _)

\* the loop over legal_moves of dls; acc is (bestValue, bestMove) so far
dlsLoop(g, me, depth, maximizing_player, tl, moves, acc) ==
    IF moves = <<>> THEN acc
    ELSE LET child == Head(moves)
             r == dls(forecast_move(g, child), me, depth - 1, ~maximizing_player, tl, acc.k)
             better == IF maximizing_player THEN r.v > acc.v ELSE r.v < acc.v
         IN IF better
            THEN dlsLoop(g, me, depth, maximizing_player, tl, Tail(moves),
                         [to |-> FALSE, v |-> r.v, move |-> child, k |-> r.k])
            ELSE dlsLoop(g, me, depth, maximizing_player, tl, Tail(moves),
                         [to |-> FALSE, v |-> acc.v, move |-> acc.move, k |-> r.k])

dls(g, me, depth, maximizing_player, tl, k) ==
    IF depth = 0
    THEN [to |-> FALSE, v |-> custom_score(g, me), move |-> no_move, k |-> Enter(tl, k)]
    ELSE dlsLoop(g, me, depth, maximizing_player, tl, get_legal_moves(g, g.active),
                 [to |-> FALSE,
                  v |-> IF maximizing_player THEN NegInf ELSE Inf,
                  move |-> no_move,
                  k |-> Enter(tl, k)])

minimax(g, me, depth, maximizing_player, tl, k) ==
    IF TimedOut(Reading(tl, k.c))
    THEN Raise(Poll(tl, k))
    ELSE dls(g, me, depth, maximizing_player, tl, Poll(tl, k))

\* -------------------------------------------------------------- alphabeta
\* a faulty variant of the cutoff test: the comparison inverted
Cutoff_inverted(alpha, beta) == beta >= alpha

\* the cutoff test of both layers
Cutoff(alpha, beta) == beta <= alpha

RECURSIVE alphabeta(_, _, _, _, _, _, _, _)
RECURSIVE abMax(_, _, _, _, _, _, _, _)
RECURSIVE abMin(_, _, _, _, _, _, _, _)

\* the loop of the maximizing layer
abMax(g, me, depth, alpha, beta, tl, moves, acc) ==
    IF moves = <<>> THEN acc
    ELSE LET child == Head(moves)
             r == alphabeta(forecast_move(g, child), me, depth - 1, alpha, beta, FALSE, tl, acc.k)
             better == r.v > acc.v
             bestValue == IF better THEN r.v ELSE acc.v
             bestMove == IF better THEN child ELSE acc.move
             alpha2 == Max(alpha, bestValue)
             acc2 == [to |-> FALSE, v |-> bestValue, move |-> bestMove, k |-> r.k]
         IN IF r.to THEN r
            ELSE IF Cutoff(alpha2, beta) THEN acc2
            ELSE abMax(g, me, depth, alpha2, beta, tl, Tail(moves), acc2)

\* the loop of the minimizing layer; it keeps the move the child RETURNED
abMin(g, me, depth, alpha, beta, tl, moves, acc) ==
    IF moves = <<>> THEN acc
    ELSE LET child == Head(moves)
             r == alphabeta(forecast_move(g, child), me, depth - 1, alpha, beta, TRUE, tl, acc.k)
             better == r.v < acc.v
             bestValue == IF better THEN r.v ELSE acc.v
             bestMove == IF better THEN r.move ELSE acc.move
             beta2 == Min(beta, bestValue)
             acc2 == [to |-> FALSE, v |-> bestValue, move |-> bestMove, k |-> r.k]
         IN IF r.to THEN r
            ELSE IF Cutoff(alpha, beta2) THEN acc2
            ELSE abMin(g, me, depth, alpha, beta2, tl, Tail(moves), acc2)

alphabeta(g, me, depth, alpha, beta, maximizing_player, tl, k) ==
    IF TimedOut(Reading(tl, k.c))
    THEN Raise(Poll(tl, k))
    ELSE LET k1 == Enter(tl, Poll(tl, k))
             legal_moves == get_legal_moves(g, g.active)
         IN IF depth = 0 \/ Len(legal_moves) = 0
            THEN [to |-> FALSE, v |-> custom_score(g, me), move |-> no_move, k |-> k1]
            ELSE IF maximizing_player
            THEN abMax(g, me, depth, alpha, beta, tl, legal_moves,
                       [to |-> FALSE, v |-> NegInf, move |-> no_move, k |-> k1])
            ELSE abMin(g, me, depth, alpha, beta, tl, legal_moves,
                       [to |-> FALSE, v |-> Inf, move |-> no_move, k |-> k1])

\* --------------------------------------------------------------- get_move
\* Python's True used as a number (1.0), times width*height
TrueAsFloat(g) == Cells(g)

\* search(game, depth, True): the third positional argument is
\* maximizing_player of minimax, but alpha of alphabeta
search(meth, g, me, depth, tl, k) ==
    IF meth = "minimax"
    THEN minimax(g, me, depth, TRUE, tl, k)
    ELSE alphabeta(g, me, depth, TrueAsFloat(g), Inf, TRUE, tl, k)

\* a faulty variant of the depth below: it starts at depth 2
IterDepth_skip(i) == i + 2

\* the depth of iteration i of itertools.count()
IterDepth(i) == i + 1

\* the iterative-deepening loop; acc holds v, move, the counters and
\* done = the number of completed iterations.  cut marks a run that the
\* model abandons because it would search deeper than MaxDepth.
RECURSIVE IterLoop(_, _, _, _, _, _)
IterLoop(meth, g, me, tl, i, acc) ==
    IF IterDepth(i) > MaxDepth THEN [acc EXCEPT !.cut = TRUE]
    ELSE LET r == search(meth, g, me, IterDepth(i), tl, acc.k)
         IN IF r.to THEN [acc EXCEPT !.to = TRUE, !.k = r.k]
            ELSE IterLoop(meth, g, me, tl, i + 1,
                          [acc EXCEPT !.v = r.v, !.move = r.move, !.k = r.k, !.done = i + 1])

\* the try block of get_move
TryBlock(meth, iter, sd, g, me, tl) ==
    LET acc0 == [to |-> FALSE, cut |-> FALSE, v |-> None, move |-> None,
                 k |-> NoCount, done |-> 0]
    IN IF iter THEN IterLoop(meth, g, me, tl, 0, acc0)
       ELSE LET r == search(meth, g, me, sd, tl, NoCount)
            IN IF r.to THEN [acc0 EXCEPT !.to = TRUE, !.k = r.k]
               ELSE [acc0 EXCEPT !.v = r.v, !.move = r.move, !.k = r.k, !.done = 1]

\* ----------------------------------------------------------- state machine
VARIABLES
    game,           \* the isolation.Board the match driver holds
    method,         \* CustomPlayer.method
    iterative,      \* CustomPlayer.iterative
    search_depth,   \* CustomPlayer.search_depth
    time_left,      \* CustomPlayer.time_left: None, or the countdown [t0, rate]
    pc,             \* "idle", or which call has returned
    v,              \* get_move's local v
    move,           \* get_move's local move
    ret,            \* the value get_move returned
    done,           \* number of search calls of get_move that completed
    raised,         \* get_move caught Timeout
    cnt,            \* node and poll counters of the searches of get_move
    probe           \* arguments and results of a direct call of a function

vars == <<game, method, iterative, search_depth, time_left, pc, v, move, ret,
          done, raised, cnt, probe>>

\* board sizes played from the empty board
Sizes ==
    {wh \in (1..MaxSide) \X (1..MaxSide) : wh[1] * wh[2] <= MaxCells /\ IsPow2(wh[1] * wh[2])}

\* a 4x4 game the driver opened with one placement per player
Opened4x4 == forecast_move(forecast_move(NewBoard(4, 4), <<1, 1>>), <<3, 0>>)

Countdowns ==
    {[t0 |-> t, rate |-> 1] : t \in (TIMER_THRESHOLD - 1)..(TIMER_THRESHOLD + MaxTime)}
    \cup {[t0 |-> TIMER_THRESHOLD + MaxTime, rate |-> 0]}

Init ==
    /\ game \in {NewBoard(wh[1], wh[2]) : wh \in Sizes} \cup {Opened4x4}
    /\ method \in {"minimax", "alphabeta"}
    /\ iterative \in BOOLEAN
    /\ search_depth \in 1..MaxDepth
    /\ time_left = None
    /\ pc = "idle"
    /\ v = None
    /\ move = None
    /\ ret = None
    /\ done = 0
    /\ raised = FALSE
    /\ cnt = NoCount
    /\ probe = None

\* Board.apply_move by the match driver
ApplyMove ==
    /\ pc = "idle"
    /\ \E m \in SeqToSet(get_legal_moves(game, game.active)) :
          game' = forecast_move(game, m)
    /\ UNCHANGED <<method, iterative, search_depth, time_left, pc, v, move, ret,
                   done, raised, cnt, probe>>

\* the opening move of get_move
Center(g) == <<g.width \div 2, g.height \div 2>>

\* CustomPlayer.get_move(game, game.get_legal_moves(), tl), called by the
\* driver for the active player
GetMove ==
    /\ pc = "idle"
    /\ \E tl \in Countdowns :
         LET legal_moves == get_legal_moves(game, game.active)
             t == TryBlock(method, iterative, search_depth, game, game.active, tl)
         IN /\ time_left' = tl
            /\ IF Len(legal_moves) = 0
               THEN /\ ret' = no_move
                    /\ UNCHANGED <<v, move, done, raised, cnt>>
               ELSE IF Len(get_legal_moves(game, game.active)) = game.width * game.height
               THEN /\ ret' = Center(game)
                    /\ UNCHANGED <<v, move, done, raised, cnt>>
               ELSE /\ ~t.cut
                    /\ v' = t.v
                    /\ move' = t.move
                    /\ ret' = t.move
                    /\ done' = t.done
                    /\ raised' = t.to
                    /\ cnt' = t.k
    /\ pc' = "returned"
    /\ UNCHANGED <<game, method, iterative, search_depth, probe>>

\* a direct call of custom_score(game, p)
CallScore ==
    /\ pc = "idle"
    /\ \E p \in 1..2 :
         /\ \/ game.loc[1] # NOT_MOVED /\ game.loc[2] # NOT_MOVED
            \/ is_loser(game, p)
            \/ is_winner(game, p)
         /\ probe' = [player |-> p, score |-> custom_score(game, p)]
    /\ pc' = "scored"
    /\ UNCHANGED <<game, method, iterative, search_depth, time_left, v, move, ret,
                   done, raised, cnt>>

\* a direct call of alphabeta(game, d, -inf, +inf, maximizing) and of
\* minimax(game, d, maximizing) on a board where somebody has moved; the
\* player is the one to move on a maximizing layer, the other one otherwise
DirectSearch ==
    /\ pc = "idle"
    /\ game.occ # {}
    /\ \E d \in 1..MaxDepth, maximizing \in BOOLEAN,
          tl \in {c \in Countdowns : c.t0 = TIMER_THRESHOLD + MaxTime} :
         LET p == IF maximizing THEN game.active ELSE get_opponent(game.active)
         IN /\ time_left' = tl
            /\ probe' = [depth |-> d, maximizing |-> maximizing, player |-> p,
                         ab |-> alphabeta(game, p, d, NegInf, Inf, maximizing, tl, NoCount),
                         mm |-> minimax(game, p, d, maximizing, tl, NoCount)]
    /\ pc' = "searched"
    /\ UNCHANGED <<game, method, iterative, search_depth, v, move, ret, done,
                   raised, cnt>>

Next == ApplyMove \/ GetMove \/ CallScore \/ DirectSearch

Spec == Init /\ [][Next]_vars

\* ----------------------------------------------------------------- claims
\* a countdown that never reaches the threshold
NoLimit == [t0 |-> TIMER_THRESHOLD + 1, rate |-> 0]

LegalNow == SeqToSet(get_legal_moves(game, game.active))

\* the depth-d minimax value of playing m at g, seen by player p
MoveValue(g, p, d, m) == dls(forecast_move(g, m), p, d - 1, FALSE, NoLimit, NoCount).v

\* the completed search of get_move at depth d, with the configured method
FixedDepth(d) == search(method, game, game.active, d, NoLimit, NoCount)

\* the completed minimax search of get_move at depth d
RootMinimax(d) == minimax(game, game.active, d, TRUE, NoLimit, NoCount)

\* get_move went into the try block
Searched == pc = "returned" /\ LegalNow # {} /\ Cardinality(LegalNow) # Cells(game)

\* C1: a root call alphabeta(state, d, -inf, +inf, True) that completes
\* returns the score of minimax(state, d, True), and the two returned moves
\* differ only if both are legal moves whose depth-d value is that score.
C1_AlphaBetaEqualsMinimax ==
    (pc = "searched" /\ probe.maximizing /\ ~probe.ab.to /\ ~probe.mm.to) =>
        /\ probe.ab.v = probe.mm.v
        /\ \/ probe.ab.move = probe.mm.move
           \/ /\ probe.ab.move \in LegalNow
              /\ probe.mm.move \in LegalNow
              /\ MoveValue(game, probe.player, probe.depth, probe.ab.move) = probe.mm.v
              /\ MoveValue(game, probe.player, probe.depth, probe.mm.move) = probe.mm.v

\* C1 witness: a completed maximizing root call at depth >= 2 in which
\* alphabeta pruned (it entered fewer nodes than minimax) and chose a move
C1_Witness ==
    /\ pc = "searched" /\ probe.maximizing /\ probe.depth >= 2
    /\ ~probe.ab.to /\ ~probe.mm.to
    /\ probe.ab.k.c < probe.mm.k.c
    /\ probe.ab.move \in LegalNow

\* C2: in fixed-depth mode without timeout, get_move with method alphabeta
\* obtains the score get_move obtains with method minimax, and the move it
\* returns has that depth-d minimax value.
C2_FixedAlphaBetaScore ==
    (Searched /\ method = "alphabeta" /\ ~iterative /\ ~raised) =>
        /\ v = RootMinimax(search_depth).v
        /\ ret \in LegalNow => MoveValue(game, game.active, search_depth, ret) = v

\* C3: in iterative mode, a Timeout during depth d+1 (d >= 1) makes get_move
\* return the move, and keep the score, of the completed search at depth d.
C3_IterativeReturnsLastCompleted ==
    (Searched /\ iterative /\ raised /\ done >= 1) =>
        /\ ret = FixedDepth(done).move
        /\ v = FixedDepth(done).v

\* C3 witness: depth d completed, depth d+1 was aborted after it had entered
\* nodes, and the completed depth d+1 search returns another move
C3_Witness ==
    /\ Searched /\ iterative /\ raised /\ done >= 1 /\ done < MaxDepth
    /\ cnt.c > FixedDepth(done).k.c + 1
    /\ ret # FixedDepth(done + 1).move

\* C4: a Timeout before any search call has completed makes get_move return
\* the sentinel (-1, -1).
C4_TimeoutBeforeFirstDepth ==
    (Searched /\ raised /\ done = 0) => ret = no_move

\* C5: every node of a search polls time_left() on entry, and no node does
\* any work once the countdown has reached the abort condition.
C5_EveryNodePolls ==
    Searched => (cnt.polls = cnt.c /\ cnt.late = 0)

\* C6: a search raises Timeout exactly when time_left() is at or
\* below the threshold; stated of the last poll of the searches of get_move
\* and of the last poll of a direct call of alphabeta and of minimax.
C6_RaisesAtOrBelow ==
    /\ (Searched /\ cnt.polls > 0) => (raised <=> cnt.last <= TIMER_THRESHOLD)
    /\ pc = "searched" =>
          /\ probe.ab.to <=> probe.ab.k.last <= TIMER_THRESHOLD
          /\ probe.mm.to <=> probe.mm.k.last <= TIMER_THRESHOLD

\* C7: on the opening position get_move returns a legal cell, the centre,
\* without a search or a poll.
C7_OpeningMoveLegal ==
    (pc = "returned" /\ LegalNow # {} /\ Cardinality(LegalNow) = Cells(game)) =>
        /\ ret \in LegalNow
        /\ cnt.polls = 0 /\ cnt.c = 0

\* C8: on a non-terminal state custom_score is own moves + distance
\* - occupied cells / all cells - opponent moves (times width*height here).
C8_OccupancyFraction ==
    (pc = "scored" /\ ~is_loser(game, probe.player) /\ ~is_winner(game, probe.player)) =>
        probe.score =
            (Len(get_legal_moves(game, probe.player))
               + distance_to_opponent(game, probe.player)
               - Len(get_legal_moves(game, get_opponent(probe.player)))) * Cells(game)
            - Cardinality(game.occ)

\* C9: when a search call of get_move has completed, the returned move is a
\* legal move of the state.
C9_ReturnsLegalMove ==
    (Searched /\ done >= 1) => ret \in LegalNow

\* C10: a minimizing alphabeta call at depth >= 1 with legal moves returns
\* the move the minimizing layer of minimax returns: the first legal move
\* of the node that achieved the returned score.
C10_MinLayerMove ==
    (pc = "searched" /\ ~probe.maximizing /\ LegalNow # {}
        /\ ~probe.ab.to /\ ~probe.mm.to) =>
        /\ probe.ab.move = probe.mm.move
        /\ probe.ab.v < Inf => probe.ab.move \in LegalNow

====
